---- MODULE Spec2Model ----
(***************************************************************************)
(* jv::NodeTraits (src/src/jv/tree-algorithms.hpp): algorithms over a tree *)
(* stored as a flat preorder sequence of nodes, each node giving its       *)
(* number of children through Crtp::getChildrenCount.                      *)
(*                                                                         *)
(* An iterator is modelled by its 1-based position in the sequence; the    *)
(* end iterator of a sequence of n entries is n + 1.  The sequence `cc'    *)
(* holds, for every entry, what getChildrenCount answers there.            *)
(***************************************************************************)
EXTENDS Integers, Sequences, FiniteSets, TLC

\* ------------------------------------------------------------------ bounds
MaxLen == 4      \* longest sequence explored
MaxArity == 2    \* largest child count an entry (or a stray read) reports
MaxOver == 2     \* how far past the end iterator a run is followed

\* std::size_t arithmetic is modular; 2^16 is the least modulus the language
\* allows (SIZE_MAX >= 65535), and every count of the model is far below it.
SizeMod == 2^16

VARIABLES
    cc,               \* the flat sequence: cc[i] = getChildrenCount(begin + i - 1)
    op,               \* which entry point is running
    pc,               \* "idle", "gns_loop", "gns_ret", "walk", "done", "crash"
    start,            \* the iterator the entry point was called with
    node,             \* getNextSibling: local `node'
    remaining_nodes,  \* getNextSibling: local `remaining_nodes'
    frames,           \* activation records of recursiveTraversal, outermost first
    ancestors,        \* ancestorsTraversal: std::vector<iterator> ancestors
    values,           \* evaluationTraversal: std::vector<Value> values
    ev,               \* evaluationTraversal: which evaluator the caller passed
    returned,         \* the iterator returned by the entry point
    value,            \* evaluationTraversal: the Value returned
    \* ---- history (not program state)
    steps,            \* getNextSibling: number of ++node performed
    wrapped,          \* getNextSibling: the counter update went below zero
    queried,          \* positions at which getChildrenCount has been called
    opaque,           \* recursiveTraversal: some visitor call did not recurse
    visits,           \* ancestorsTraversal: the views handed to func, in order
    pushpop,          \* ancestorsTraversal: <<number of push_back, number of pop_back>>
    balance,          \* ancestorsTraversal: per finished node, stack before/after
    evals             \* evaluationTraversal: the evaluator invocations, in order

vars == <<cc, op, pc, start, node, remaining_nodes, frames, ancestors, values,
          ev, returned, value, steps, wrapped, queried, opaque, visits,
          pushpop, balance, evals>>

gnsVars == <<node, remaining_nodes, steps, wrapped>>
walkVars == <<frames, opaque>>
atVars == <<ancestors, visits, pushpop, balance>>
etVars == <<values, ev, value, evals>>

\* ------------------------------------------------------------ the sequence
Trees == UNION {[1..n -> 0..MaxArity] : n \in 1..MaxLen}

End == Len(cc) + 1

\* Crtp::getChildrenCount(it).  Inside the sequence it is the entry's count.
\* At or past the end iterator the read is undefined: it may yield any count.
ChildrenCounts(pos) ==
    IF pos \in 1..Len(cc) THEN {cc[pos]} ELSE 0..MaxArity

\* The run is followed only while it stays within MaxOver of the end.
Followed(pos) == pos <= Len(cc) + MaxOver

\* ------------------------------------------------------- getNextSibling
\* variant: the children of the entry are not added
CounterUpdateIgnoringChildren(r, c) == (r + SizeMod - 1) % SizeMod

\* variant: the entry itself is not taken off
CounterUpdateNoDecrement(r, c) == (r + c) % SizeMod

\* remaining_nodes + getChildrenCount(node) - 1, in std::size_t
CounterUpdate(r, c) == (((r + c) % SizeMod) + SizeMod - 1) % SizeMod

\* the initial value of remaining_nodes
CounterInit == 1

\* variant: the loop also stops at the end of the sequence
LoopContinuesChecked(r, pos) == r > 0 /\ pos <= Len(cc)

\* while (remaining_nodes > 0)
LoopContinues(r, pos) == r > 0

GNS_Begin(p) ==
    /\ pc = "idle"
    /\ p \in 1..Len(cc)
    /\ op' = "getNextSibling"
    /\ start' = p
    /\ node' = p
    /\ remaining_nodes' = CounterInit
    /\ pc' = "gns_loop"
    /\ UNCHANGED <<cc, steps, wrapped, queried, returned, walkVars, atVars, etVars>>

\* one pass through the do-while body, and the test that follows it
GNS_Iter ==
    /\ pc = "gns_loop"
    /\ Followed(node)
    /\ \E c \in ChildrenCounts(node) :
         /\ remaining_nodes' = CounterUpdate(remaining_nodes, c)
         /\ wrapped' = (wrapped \/ remaining_nodes + c < 1)
    /\ queried' = queried \cup {node}
    /\ node' = node + 1
    /\ steps' = steps + 1
    /\ pc' = IF LoopContinues(remaining_nodes', node') THEN "gns_loop" ELSE "gns_ret"
    /\ UNCHANGED <<cc, op, start, returned, walkVars, atVars, etVars>>

GNS_Return ==
    /\ pc = "gns_ret"
    /\ returned' = node
    /\ pc' = "done"
    /\ UNCHANGED <<cc, op, start, queried, gnsVars, walkVars, atVars, etVars>>

\* getNextSibling(p) as a function of the sequence: the same loop, run to
\* its end on entries of the sequence
RECURSIVE getNextSiblingLoop(_, _)
getNextSiblingLoop(pos, r) ==
    LET r2 == CounterUpdate(r, cc[pos])
    IN IF LoopContinues(r2, pos + 1) THEN getNextSiblingLoop(pos + 1, r2)
       ELSE pos + 1

getNextSibling(p) == getNextSiblingLoop(p, CounterInit)

\* ---------------------------------------------------- recursiveTraversal
\* The activation of recursiveTraversal(p, func) after lines 59-60:
\* nb_children has been read and node advanced once.  `given' and `rets'
\* record the iterators this activation passed to func and got back;
\* `bi' and `saved' belong to the lambda that made the call (begin_index of
\* evaluationTraversal; the stack before push_back in ancestorsTraversal).
EnterFrame(p, n, b, s) ==
    [arg |-> p, node |-> p + 1, nb |-> n, given |-> <<>>, rets |-> <<>>,
     bi |-> b, saved |-> s]

\* line 62, as func is called: it is handed the current iterator
Calling(f) == [f EXCEPT !.given = Append(@, f.node)]

\* variant: the iterator func returns is dropped and node stepped once
ResumedIgnoringNext(f, next) ==
    [f EXCEPT !.node = @ + 1, !.nb = @ - 1, !.rets = Append(@, next)]

\* variant: nb_children is not decremented
ResumedNoDecrement(f, next) ==
    [f EXCEPT !.node = next, !.rets = Append(@, next)]

\* line 62 and the loop step, as func returns `next': node = next; --nb_children
Resumed(f, next) ==
    [f EXCEPT !.node = next, !.nb = @ - 1, !.rets = Append(@, next)]

Top == frames[Len(frames)]

Push(f) == Append(SubSeq(frames, 1, Len(frames) - 1), Calling(Top)) \o <<f>>

Pop(next) ==
    Append(SubSeq(frames, 1, Len(frames) - 2), Resumed(frames[Len(frames) - 1], next))

\* recursiveTraversal(p, v) called directly
RT_Begin(p) ==
    /\ pc = "idle"
    /\ p \in 1..Len(cc)
    /\ op' = "recursiveTraversal"
    /\ start' = p
    /\ \E n \in ChildrenCounts(p) : frames' = <<EnterFrame(p, n, 0, <<>>)>>
    /\ queried' = queried \cup {p}
    /\ pc' = "walk"
    /\ UNCHANGED <<cc, returned, opaque, gnsVars, atVars, etVars>>

\* the loop calls v(node, v), and v calls recursiveTraversal(node, v)
RT_Visit ==
    /\ pc = "walk" /\ op = "recursiveTraversal"
    /\ Top.nb # 0
    /\ Followed(Top.node)
    /\ \E n \in ChildrenCounts(Top.node) :
         frames' = Push(EnterFrame(Top.node, n, 0, <<>>))
    /\ queried' = queried \cup {Top.node}
    /\ UNCHANGED <<cc, op, pc, start, returned, opaque, gnsVars, atVars, etVars>>

\* the loop calls a visitor that does not recurse and returns an iterator of
\* its own choosing; an InputIterator can only have been stepped forward
RT_VisitOpaque(r) ==
    /\ pc = "walk" /\ op = "recursiveTraversal"
    /\ Top.nb # 0
    /\ r \in Top.node..End
    /\ frames' = [frames EXCEPT ![Len(frames)] = Resumed(Calling(Top), r)]
    /\ opaque' = TRUE
    /\ UNCHANGED <<cc, op, pc, start, returned, queried, gnsVars, atVars, etVars>>

\* an inner recursiveTraversal returns, v returns its result to the loop
RT_Leave ==
    /\ pc = "walk" /\ op = "recursiveTraversal"
    /\ Len(frames) > 1
    /\ Top.nb = 0
    /\ frames' = Pop(Top.node)
    /\ UNCHANGED <<cc, op, pc, start, returned, queried, opaque, gnsVars, atVars, etVars>>

\* the outermost recursiveTraversal returns
RT_Finish ==
    /\ pc = "walk" /\ op = "recursiveTraversal"
    /\ Len(frames) = 1
    /\ Top.nb = 0
    /\ returned' = Top.node
    /\ pc' = "done"
    /\ UNCHANGED <<cc, op, start, queried, walkVars, gnsVars, atVars, etVars>>

\* ---------------------------------------------------- ancestorsTraversal
\* variant: the pop is forgotten
PopBackForgotten(s) == s

\* ancestors.pop_back()
PopBack(s) == SubSeq(s, 1, Len(s) - 1)

\* lines 75-79: push the root, call func on the stack, start the recursion
AT_Begin(p) ==
    /\ pc = "idle"
    /\ p \in 1..Len(cc)
    /\ op' = "ancestorsTraversal"
    /\ start' = p
    /\ ancestors' = <<p>>
    /\ visits' = <<ancestors'>>
    /\ pushpop' = <<1, 0>>
    /\ \E n \in ChildrenCounts(p) : frames' = <<EnterFrame(p, n, 0, <<>>)>>
    /\ queried' = queried \cup {p}
    /\ pc' = "walk"
    /\ UNCHANGED <<cc, returned, opaque, balance, gnsVars, etVars>>

\* lines 80-82: the lambda is called on a child: push, call func, recurse
AT_Visit ==
    /\ pc = "walk" /\ op = "ancestorsTraversal"
    /\ Top.nb # 0
    /\ Followed(Top.node)
    /\ ancestors' = Append(ancestors, Top.node)
    /\ visits' = Append(visits, ancestors')
    /\ pushpop' = <<pushpop[1] + 1, pushpop[2]>>
    /\ \E n \in ChildrenCounts(Top.node) :
         frames' = Push(EnterFrame(Top.node, n, 0, ancestors))
    /\ queried' = queried \cup {Top.node}
    /\ UNCHANGED <<cc, op, pc, start, returned, opaque, balance, gnsVars, etVars>>

\* lines 82-84: the inner recursion returns: pop, return next to the loop
AT_Leave ==
    /\ pc = "walk" /\ op = "ancestorsTraversal"
    /\ Len(frames) > 1
    /\ Top.nb = 0
    /\ ancestors' = PopBack(ancestors)
    /\ pushpop' = <<pushpop[1], pushpop[2] + 1>>
    /\ balance' = Append(balance, [node |-> Top.arg, before |-> Top.saved,
                                   after |-> ancestors', root |-> FALSE])
    /\ frames' = Pop(Top.node)
    /\ UNCHANGED <<cc, op, pc, start, returned, queried, opaque, visits, gnsVars, etVars>>

\* line 79: the outermost recursiveTraversal returns and so does the walk
AT_Finish ==
    /\ pc = "walk" /\ op = "ancestorsTraversal"
    /\ Len(frames) = 1
    /\ Top.nb = 0
    /\ returned' = Top.node
    /\ balance' = Append(balance, [node |-> Top.arg, before |-> Top.saved,
                                   after |-> ancestors, root |-> TRUE])
    /\ pc' = "done"
    /\ UNCHANGED <<cc, op, start, queried, walkVars, ancestors, visits, pushpop,
                   gnsVars, etVars>>

\* --------------------------------------------------- evaluationTraversal
\* The evaluators a caller may pass.  "term" builds the term <<n, children>>:
\* every evaluator is a function of that term, so what holds of it holds of
\* all.  "sum" is the evaluator of the test: an entry without children counts
\* for its size (here its position), any other for the sum of its children.
Evaluators == {"term", "sum"}

RECURSIVE SumSeq(_)
SumSeq(w) == IF w = <<>> THEN 0 ELSE w[1] + SumSeq(Tail(w))

\* func(node, begin, end)
Func(e, n, w) ==
    IF e = "term" THEN <<n, w>>
    ELSE IF n \in 1..Len(cc) /\ cc[n] = 0 THEN n
    ELSE SumSeq(w)

\* variant: the window starts at the beginning of the buffer
WindowWhole(v, b) == v

\* variant: the window starts one value late
WindowFromSecond(v, b) == SubSeq(v, b + 2, Len(v))

\* [values.data() + begin_index, values.data() + values.size())
Window(v, b) == SubSeq(v, b + 1, Len(v))

\* values.resize(begin_index)
Resize(v, b) ==
    IF b <= Len(v) THEN SubSeq(v, 1, b) ELSE v \o [i \in 1..(b - Len(v)) |-> 0]

\* variant: the children's values are left in the buffer
ReplaceNoResize(v, b, ret) == Append(v, ret)

\* lines 103-104: values.resize(begin_index); values.emplace_back(ret)
Replace(v, b, ret) == Append(Resize(v, b), ret)

\* lines 97-99: an empty buffer, start the recursion
ET_Begin(p, e) ==
    /\ pc = "idle"
    /\ p \in 1..Len(cc)
    /\ op' = "evaluationTraversal"
    /\ start' = p
    /\ ev' = e
    /\ values' = <<>>
    /\ \E n \in ChildrenCounts(p) : frames' = <<EnterFrame(p, n, 0, <<>>)>>
    /\ queried' = queried \cup {p}
    /\ pc' = "walk"
    /\ UNCHANGED <<cc, returned, opaque, value, evals, gnsVars, atVars>>

\* lines 100-101: the lambda is called on a child: note the size, recurse
ET_Visit ==
    /\ pc = "walk" /\ op = "evaluationTraversal"
    /\ Top.nb # 0
    /\ Followed(Top.node)
    /\ \E n \in ChildrenCounts(Top.node) :
         frames' = Push(EnterFrame(Top.node, n, Len(values), <<>>))
    /\ queried' = queried \cup {Top.node}
    /\ UNCHANGED <<cc, op, pc, start, returned, opaque, gnsVars, atVars, etVars>>

\* lines 101-105: the inner recursion returns: evaluate the node on the tail
\* of the buffer, replace the tail by the result, return next to the loop
ET_Leave ==
    /\ pc = "walk" /\ op = "evaluationTraversal"
    /\ Len(frames) > 1
    /\ Top.nb = 0
    /\ LET win == Window(values, Top.bi)
           ret == Func(ev, Top.arg, win)
       IN /\ values' = Replace(values, Top.bi, ret)
          /\ evals' = Append(evals, [node |-> Top.arg, win |-> win, buf |-> values,
                                     ret |-> ret, before |-> Top.bi,
                                     after |-> Len(values'), root |-> FALSE])
    /\ frames' = Pop(Top.node)
    /\ UNCHANGED <<cc, op, pc, start, returned, queried, opaque, ev, value,
                   gnsVars, atVars>>

\* line 108: the outermost recursion has returned: evaluate the root on the
\* whole buffer and return the pair
ET_Finish ==
    /\ pc = "walk" /\ op = "evaluationTraversal"
    /\ Len(frames) = 1
    /\ Top.nb = 0
    /\ LET win == Window(values, 0)
           ret == Func(ev, Top.arg, win)
       IN /\ value' = ret
          /\ evals' = Append(evals, [node |-> Top.arg, win |-> win, buf |-> values,
                                     ret |-> ret, before |-> Top.bi,
                                     after |-> Len(values), root |-> TRUE])
    /\ returned' = Top.node
    /\ pc' = "done"
    /\ UNCHANGED <<cc, op, start, queried, walkVars, values, ev, gnsVars, atVars>>

\* ------------------------------------------------- reads past the sequence
\* the position at which the running operation calls getChildrenCount next
NextQuery ==
    IF pc = "gns_loop" THEN node
    ELSE IF pc = "walk" /\ Top.nb # 0 THEN Top.node
    ELSE 0

\* getChildrenCount dereferences an iterator at or past the end: besides
\* yielding a stray count (ChildrenCounts) the read may end the program
Fault ==
    /\ NextQuery > Len(cc)
    /\ queried' = queried \cup {NextQuery}
    /\ pc' = "crash"
    /\ UNCHANGED <<cc, op, start, returned, gnsVars, walkVars, atVars, etVars>>

\* ------------------------------------------------------------------ system
Init ==
    /\ cc \in Trees
    /\ op = "none"
    /\ pc = "idle"
    /\ start = 0
    /\ node = 0
    /\ remaining_nodes = 0
    /\ frames = <<>>
    /\ ancestors = <<>>
    /\ values = <<>>
    /\ ev = "none"
    /\ returned = 0
    /\ value = <<>>
    /\ steps = 0
    /\ wrapped = FALSE
    /\ queried = {}
    /\ opaque = FALSE
    /\ visits = <<>>
    /\ pushpop = <<0, 0>>
    /\ balance = <<>>
    /\ evals = <<>>

Next ==
    \/ \E p \in 1..MaxLen : GNS_Begin(p)
    \/ GNS_Iter
    \/ GNS_Return
    \/ \E p \in 1..MaxLen : RT_Begin(p)
    \/ RT_Visit
    \/ \E r \in 1..(MaxLen + 1) : RT_VisitOpaque(r)
    \/ RT_Leave
    \/ RT_Finish
    \/ \E p \in 1..MaxLen : AT_Begin(p)
    \/ AT_Visit
    \/ AT_Leave
    \/ AT_Finish
    \/ \E p \in 1..MaxLen, e \in Evaluators : ET_Begin(p, e)
    \/ ET_Visit
    \/ ET_Leave
    \/ ET_Finish
    \/ Fault

Spec == Init /\ [][Next]_vars
\* ============================================================ reference
\* What the flat sequence means, read off its structure: the subtree of the
\* entry at p is p followed by the subtrees of its cc[p] children.
\* SubtreeEnd(p) is the position just past that subtree, or 0 when the
\* counts ask for entries the sequence does not have.
RECURSIVE SubtreeEnd(_), SkipSubtrees(_, _)
SubtreeEnd(p) == IF p > Len(cc) THEN 0 ELSE SkipSubtrees(p + 1, cc[p])
SkipSubtrees(q, k) ==
    IF k = 0 THEN q
    ELSE LET e == SubtreeEnd(q)
         IN IF e = 0 THEN 0 ELSE SkipSubtrees(e, k - 1)

WellFormed == SubtreeEnd(1) = End
ClaimsMore(p) == SubtreeEnd(p) = 0
ClaimsFewer == SubtreeEnd(1) \in 2..Len(cc)

SubtreeSize(p) == SubtreeEnd(p) - p

\* the i-th child of p, left to right
RECURSIVE Child(_, _)
Child(p, i) == IF i = 1 THEN p + 1 ELSE SubtreeEnd(Child(p, i - 1))

Parent(n) == CHOOSE q \in 1..(n - 1) : \E i \in 1..cc[q] : Child(q, i) = n

\* the positions from r down to its descendant n
RECURSIVE Path(_, _)
Path(r, n) == IF n = r THEN <<r>> ELSE Append(Path(r, Parent(n)), n)

RECURSIVE Depth(_, _)
Depth(r, n) == IF n = r THEN 0 ELSE 1 + Depth(r, Parent(n))

\* value(n) = f(n, [value(c1), ..., value(ck)])
RECURSIVE RefValue(_, _)
RefValue(e, n) == Func(e, n, [i \in 1..cc[n] |-> RefValue(e, Child(n, i))])

\* the nodes of p's subtree, every node after all its descendants
RECURSIVE Postorder(_), PostorderOfChildren(_, _)
Postorder(p) == PostorderOfChildren(p, 1) \o <<p>>
PostorderOfChildren(p, i) ==
    IF i > cc[p] THEN <<>>
    ELSE Postorder(Child(p, i)) \o PostorderOfChildren(p, i + 1)

IsPrefix(a, b) == Len(a) <= Len(b) /\ a = SubSeq(b, 1, Len(a))

Walking == op \in {"recursiveTraversal", "ancestorsTraversal", "evaluationTraversal"}

\* =============================================================== claims

\* C1: on a well-formed sequence getNextSibling(p) returns p + subtreeSize(p),
\* the position just past p's subtree; from the first entry that is the end
\* of the sequence; and the loop advances once per entry of the subtree.
C1_SiblingSkip ==
    (op = "getNextSibling" /\ pc = "done" /\ WellFormed) =>
        /\ returned = start + SubtreeSize(start)
        /\ steps = SubtreeSize(start)
        /\ (start = 1 => returned = End)

C1_Witness ==
    /\ op = "getNextSibling" /\ pc = "done" /\ WellFormed
    /\ start > 1 /\ SubtreeSize(start) >= 2 /\ returned < End

\* C9 as stated: remaining_nodes is at least 1 whenever an iteration
\* starts, so the update never goes below zero; on a well-formed sequence,
\* after each iteration it is the number of entries that still have to be
\* stepped over before the position past the start node's subtree; a node
\* without children makes the loop stop after one step and return the next
\* position, whatever the sequence holds.
C9_AsStated ==
    op = "getNextSibling" =>
        /\ ~wrapped
        /\ (pc = "gns_loop" => remaining_nodes >= 1)
        /\ (WellFormed /\ steps >= 1 =>
               remaining_nodes = start + SubtreeSize(start) - node)
        /\ (cc[start] = 0 /\ steps >= 1 =>
               /\ pc \in {"gns_ret", "done"}
               /\ steps = 1
               /\ node = start + 1
               /\ (pc = "done" => returned = start + 1))

\* C9, amended: as above, except that after each iteration remaining_nodes
\* is the number of subtrees that still have to be skipped (entries a child
\* count has announced and the loop has not stepped onto yet): skipping that
\* many subtrees from the current position leads to the position past the
\* start node's subtree.  It never exceeds the number of entries left.
C9_Counter ==
    op = "getNextSibling" =>
        /\ ~wrapped
        /\ (pc = "gns_loop" => remaining_nodes >= 1)
        /\ (WellFormed /\ steps >= 1 =>
               /\ SkipSubtrees(node, remaining_nodes) = start + SubtreeSize(start)
               /\ remaining_nodes <= start + SubtreeSize(start) - node)
        /\ (cc[start] = 0 /\ steps >= 1 =>
               /\ pc \in {"gns_ret", "done"}
               /\ steps = 1
               /\ node = start + 1
               /\ (pc = "done" => returned = start + 1))

\* a well-formed chain, two entries still ahead and one subtree pending
C9_Witness ==
    /\ op = "getNextSibling" /\ pc = "gns_loop" /\ WellFormed
    /\ steps >= 1 /\ remaining_nodes = 1
    /\ start + SubtreeSize(start) - node = 2

\* C10: nothing stops a run at the end of the sequence.  When the counts
\* below the start node ask for more entries than there are, a run with
\* recursing visitors calls getChildrenCount at the end position before it
\* can finish, and if it returns it returns a position past the end.  When
\* the counts from the first entry cover fewer entries than there are, the
\* run from the first entry returns a position before the end and never
\* looks at the entries from there on.
C10_NoBoundsCheck ==
    ~opaque =>
        /\ (op # "none" /\ ClaimsMore(start) /\ pc \in {"done", "crash"} =>
               /\ End \in queried
               /\ (pc = "done" => returned > End))
        /\ (op # "none" /\ start = 1 /\ ClaimsFewer =>
               /\ pc # "crash"
               /\ queried \subseteq 1..(SubtreeEnd(1) - 1)
               /\ (pc = "done" =>
                      /\ returned = SubtreeEnd(1)
                      /\ returned < End
                      /\ queried = 1..(returned - 1)))

C10_Witness ==
    /\ op = "getNextSibling" /\ pc = "done" /\ ClaimsMore(start)
    /\ returned > End /\ End \in queried

\* C4: on a well-formed sequence the position returned by recursiveTraversal
\* with recursing visitors, by ancestorsTraversal and by evaluationTraversal
\* started at p is getNextSibling(p); from the first entry it is the end.
C4_SameAsSiblingSkip ==
    (Walking /\ ~opaque /\ pc = "done" /\ WellFormed) =>
        /\ returned = getNextSibling(start)
        /\ (start = 1 => returned = End)

C4_Witness ==
    /\ op = "evaluationTraversal" /\ pc = "done" /\ WellFormed
    /\ start > 1 /\ cc[start] >= 1 /\ returned < End

\* C5: an activation of recursiveTraversal(node, func) calls func one call at
\* a time, childCount(node) times in all; the first call is handed node + 1
\* and each later call the position the previous call returned; when every
\* visitor returns the position past the child's subtree the k-th call is
\* handed node's k-th child.
C5_OneCallPerChild ==
    Walking =>
        \A d \in 1..Len(frames) :
            LET f == frames[d]
            IN /\ Len(f.given) = Len(f.rets) + (IF d < Len(frames) THEN 1 ELSE 0)
               /\ (f.arg <= Len(cc) => Len(f.rets) + f.nb = cc[f.arg])
               /\ \A k \in 1..Len(f.given) :
                      f.given[k] = IF k = 1 THEN f.arg + 1 ELSE f.rets[k - 1]
               /\ (WellFormed /\ ~opaque =>
                      \A k \in 1..Len(f.given) : f.given[k] = Child(f.arg, k))

C5_Witness ==
    /\ op = "recursiveTraversal" /\ pc = "done" /\ opaque
    /\ Len(frames[1].given) = 2 /\ frames[1].given[2] > start + 2
    /\ frames[1].nb = 0
\* C2: on a well-formed sequence evaluationTraversal(root, f) returns the
\* value of the recursive fold value(n) = f(n, [value(c1), ..., value(ck)])
\* at the root, and the value computed for every node of the subtree obeys
\* the same equation.
C2_Fold ==
    (op = "evaluationTraversal" /\ WellFormed) =>
        /\ \A k \in 1..Len(evals) :
               /\ evals[k].ret = RefValue(ev, evals[k].node)
               /\ evals[k].ret = Func(ev, evals[k].node,
                                      [i \in 1..cc[evals[k].node] |->
                                          RefValue(ev, Child(evals[k].node, i))])
        /\ (pc = "done" =>
               /\ value = RefValue(ev, start)
               /\ {evals[k].node : k \in 1..Len(evals)}
                      = start..(start + SubtreeSize(start) - 1))

C2_Witness ==
    /\ op = "evaluationTraversal" /\ pc = "done" /\ WellFormed /\ ev = "term"
    /\ cc[start] = 2 /\ cc[start + 1] = 1
    /\ value = <<start, << <<start + 1, << <<start + 2, <<>> >> >> >>,
                           <<start + 3, <<>> >> >> >>

\* C3: on a well-formed sequence ancestorsTraversal(root, visitor) calls the
\* visitor once per node of root's subtree, in increasing position, and the
\* view it hands over at node n is the path of positions from root to n, of
\* length 1 + depth of n below root.
C3_AncestorViews ==
    (op = "ancestorsTraversal" /\ WellFormed) =>
        /\ \A k \in 1..Len(visits) :
               /\ visits[k][Len(visits[k])] = start + k - 1
               /\ visits[k] = Path(start, start + k - 1)
               /\ Len(visits[k]) = 1 + Depth(start, start + k - 1)
        /\ Len(visits) <= SubtreeSize(start)
        /\ (pc = "done" => Len(visits) = SubtreeSize(start))

\* a node at depth 1 is visited after a node at depth 2
C3_Witness ==
    /\ op = "ancestorsTraversal" /\ pc = "done" /\ WellFormed
    /\ Len(visits) >= 4
    /\ Len(visits[3]) = 3 /\ Len(visits[4]) = 2

\* C6: on a well-formed sequence the evaluator is called once per node of
\* the root's subtree, in postorder, and at the call for node n the window
\* holds childCount(n) values, the values of n's children from left to
\* right, and is the tail of the buffer; for a leaf the window is empty.
C6_Windows ==
    (op = "evaluationTraversal" /\ WellFormed) =>
        /\ IsPrefix([k \in 1..Len(evals) |-> evals[k].node], Postorder(start))
        /\ (pc = "done" => Len(evals) = SubtreeSize(start))
        /\ \A k \in 1..Len(evals) :
               LET r == evals[k]
                   n == cc[r.node]
               IN /\ Len(r.win) = n
                  /\ r.win = [i \in 1..n |-> RefValue(ev, Child(r.node, i))]
                  /\ r.win = SubSeq(r.buf, Len(r.buf) - n + 1, Len(r.buf))
                  /\ (n = 0 => r.win = <<>>)

\* the second child's window lies above the first child's value
C6_Witness ==
    /\ op = "evaluationTraversal" /\ WellFormed
    /\ \E k \in 1..Len(evals) :
           /\ ~evals[k].root
           /\ Len(evals[k].win) >= 1
           /\ Len(evals[k].buf) > Len(evals[k].win)

\* C7 as stated: for every node, the root included, the buffer is one value
\* longer when the node is finished than when its processing began.
C7_AsStated ==
    (op = "evaluationTraversal" /\ WellFormed) =>
        \A k \in 1..Len(evals) : evals[k].after = evals[k].before + 1

\* C7, amended: that holds for every node but the root of the traversal,
\* whose childCount(n) child values are replaced by its one value; the
\* root's value is returned without being stored, and its children's values
\* stay in the buffer.
C7_NetPush ==
    op = "evaluationTraversal" =>
        \A k \in 1..Len(evals) :
            LET r == evals[k]
            IN /\ (~r.root => r.after = r.before + 1)
               /\ (~r.root /\ WellFormed =>
                      /\ Len(r.buf) = r.before + cc[r.node]
                      /\ r.after = Len(r.buf) - cc[r.node] + 1)
               /\ (r.root /\ WellFormed =>
                      /\ r.before = 0
                      /\ r.after = cc[r.node]
                      /\ values = r.win)

\* a node below the root has had its two child values replaced by its own
C7_Witness ==
    /\ op = "evaluationTraversal" /\ pc = "done" /\ WellFormed
    /\ \E k \in 1..Len(evals) :
           /\ ~evals[k].root /\ cc[evals[k].node] = 2
           /\ Len(evals[k].buf) = evals[k].before + 2
           /\ evals[k].after = evals[k].before + 1

\* C8 as stated: every node, the root of the walk included, is pushed before
\* its children are visited and popped when its descendants are done, so
\* that the stack is then what it was before the push, and pushes and pops
\* are balanced over the walk.
C8_AsStated ==
    op = "ancestorsTraversal" =>
        /\ \A k \in 1..Len(balance) : balance[k].after = balance[k].before
        /\ (pc = "done" => pushpop[1] = pushpop[2])

\* C8, amended: every node is on the stack, below its descendants, from
\* before its children are visited until its descendants are done; every
\* node but the root of the walk is then popped, leaving the stack as it was
\* before the push; the root is never popped: the walk ends with the root
\* alone on the stack and one pop fewer than pushes.
C8_StackDiscipline ==
    op = "ancestorsTraversal" =>
        /\ (pc = "walk" => ancestors = [d \in 1..Len(frames) |-> frames[d].arg])
        /\ \A k \in 1..Len(balance) :
               /\ (~balance[k].root => balance[k].after = balance[k].before)
               /\ (balance[k].root =>
                      /\ balance[k].before = <<>>
                      /\ balance[k].after = <<start>>)
        /\ (pc = "done" =>
               /\ ancestors = <<start>>
               /\ pushpop[1] = pushpop[2] + 1
               /\ (WellFormed => pushpop[1] = SubtreeSize(start)))

C8_Witness ==
    /\ op = "ancestorsTraversal" /\ pc = "done" /\ WellFormed
    /\ pushpop = <<4, 3>>
    /\ \E k \in 1..Len(balance) : Len(balance[k].before) = 2
====
